---- MODULE Spec2Model ----
(***************************************************************************)
(* Billing engine of the SaaS backend: invoices, payments, the payment     *)
(* provider, the webhook endpoint and subscription creation with coupons.  *)
(*                                                                         *)
(* Every HTTP request is a handler running in its own worker.  A handler   *)
(* loads a model instance (a private copy of the row), works on the copy   *)
(* and writes it back with save(), which stores every field of the copy.   *)
(* The database is PostgreSQL (READ COMMITTED) without ATOMIC_REQUESTS, so *)
(* outside transaction.atomic() each statement commits on its own and      *)
(* handlers interleave between statements.                                 *)
(***************************************************************************)
EXTENDS Integers, Sequences, FiniteSets, TLC

VARIABLES
    settings,       \* PAYMENTS_PROVIDER and STRIPE_WEBHOOK_SECRET of the deployment
    now,            \* the clock read by timezone.now()
    invoices,       \* table Invoice: id -> row
    items,          \* table InvoiceItem: invoice id -> sequence of line items
    payments,       \* table Payment: sequence of rows in creation order
    intents,        \* number of payment references the provider has issued
    reqs,           \* finalize / pay / webhook requests: slot -> handler state
    paid_count,     \* per invoice: how often its stored status changed to paid
    coupons,        \* table Coupon: code -> row
    subscriptions,  \* table Subscription: sequence of rows in creation order
    customers,      \* table Customer: set of users that have a customer row
    creates,        \* subscription-creation handlers: slot -> handler state
    outbox,         \* payment-confirmation emails sent: sequence of invoice ids
    clock_ms,       \* time.time() * 1000 as generate_invoice_number reads it
    numbers,        \* invoice numbers allocated so far, in allocation order
    last_call,      \* the latest call of a pure operation: its inputs and its result
    cancels,        \* subscription-cancel handlers: slot -> handler state
    dummy_payments  \* DummyProvider.payments of one provider instance: ref -> data

vars == <<settings, now, invoices, items, payments, intents, reqs,
          paid_count, coupons, subscriptions, customers, creates,
          outbox, clock_ms, numbers, last_call, cancels, dummy_payments>>

billing_vars == <<invoices, items, payments, intents, reqs, paid_count>>

sub_vars == <<coupons, subscriptions, customers, creates>>

other_vars == <<outbox, clock_ms, numbers, last_call, cancels, dummy_payments>>

(***************************************************************************)
(* Bounds of the model.                                                    *)
(***************************************************************************)
MaxReq == 3

MaxNow == 1

MaxInFlight == 2

MaxHooks == 2

MaxCreate == 2

\* None in a text field, and NULL in a nullable number or timestamp column.
None == "None"

\* No pure operation has been called yet.
NoCall == [op |-> "none"]

Null == -1

InvoiceIds == {1}

ReqIds == 1..MaxReq

(***************************************************************************)
(* core/utils.py and config/settings.py                                    *)
(***************************************************************************)
\* TAX_RATE = 8.5 percent, kept in tenths of a percent.
TAX_RATE_TENTHS == 85

Max(a, b) == IF a >= b THEN a ELSE b


\* int((subtotal_cents * tax_rate) / 100): truncation of a non-negative quotient.
calculate_tax_amount(subtotal_cents) ==
    (subtotal_cents * TAX_RATE_TENTHS) \div 1000

(***************************************************************************)
(* billing/models.py: InvoiceItem, Invoice                                 *)
(***************************************************************************)
total_amount_cents(item) == item.quantity * item.unit_amount_cents

RECURSIVE SumItems(_)
SumItems(s) ==
    IF s = <<>> THEN 0 ELSE total_amount_cents(Head(s)) + SumItems(Tail(s))

\* Line items an invoice may carry: quantity >= 1, unit amount >= 0.
NoItems == <<>>

PlanItem == << [quantity |-> 1, unit_amount_cents |-> 2900] >>

TwoItems == << [quantity |-> 2, unit_amount_cents |-> 100],
               [quantity |-> 1, unit_amount_cents |-> 50] >>

\* Every PositiveIntegerField of Invoice carries a CHECK (col >= 0) in PostgreSQL.
InvoiceRowStorable(row) ==
    /\ row.subtotal_cents >= 0
    /\ row.tax_cents >= 0
    /\ row.discount_cents >= 0
    /\ row.total_cents >= 0

\* An open invoice: as the seed command stores it (its tax written by hand), or
\* as an earlier finalize request left it.
OpenInvoice(its, discount, tax) ==
    [ status         |-> "open",
      subtotal_cents |-> SumItems(its),
      tax_cents      |-> tax,
      discount_cents |-> discount,
      total_cents    |-> SumItems(its) + tax - discount,
      currency       |-> "USD",
      paid_at        |-> Null ]

\* A draft invoice: no tax yet, and the subtotal it was created with, which is
\* that of its items (as the seed command stores it) or still 0 (its items were
\* entered after it).
DraftInvoice(its, discount, subtotal) ==
    [ status         |-> "draft",
      subtotal_cents |-> subtotal,
      tax_cents      |-> 0,
      discount_cents |-> discount,
      total_cents    |-> Max(0, subtotal - discount),
      currency       |-> "USD",
      paid_at        |-> Null ]

\* The invoice in the table when the requests start, with its items.
InvoiceSeeds ==
    { [items |-> NoItems,  discount |-> 0,   status |-> "draft", subtotal |-> 0,    tax |-> 0],
      [items |-> PlanItem, discount |-> 580, status |-> "draft", subtotal |-> 2900, tax |-> 0],
      [items |-> TwoItems, discount |-> 0,   status |-> "draft", subtotal |-> 0,    tax |-> 0],
      [items |-> TwoItems, discount |-> 580, status |-> "draft", subtotal |-> 250,  tax |-> 0],
      [items |-> PlanItem, discount |-> 580, status |-> "open",  subtotal |-> 2900, tax |-> 247],
      [items |-> PlanItem, discount |-> 580, status |-> "void",  subtotal |-> 2900, tax |-> 247],
      [items |-> TwoItems, discount |-> 0,   status |-> "open",  subtotal |-> 250,
       tax |-> calculate_tax_amount(250)] }

SeedInvoice(seed) ==
    IF seed.status = "draft"
    THEN DraftInvoice(seed.items, seed.discount, seed.subtotal)
    ELSE [OpenInvoice(seed.items, seed.discount, seed.tax) EXCEPT !.status = seed.status]

(***************************************************************************)
(* billing/payments: the configured provider                               *)
(***************************************************************************)
\* Deployments: the dummy provider, Stripe with its webhook secret set, and
\* Stripe with STRIPE_WEBHOOK_SECRET left at its default ''.
Deployments ==
    { [PAYMENTS_PROVIDER |-> "dummy",  STRIPE_WEBHOOK_SECRET |-> ""],
      [PAYMENTS_PROVIDER |-> "stripe", STRIPE_WEBHOOK_SECRET |-> "whsec"],
      [PAYMENTS_PROVIDER |-> "stripe", STRIPE_WEBHOOK_SECRET |-> ""] }

get_provider_name == settings.PAYMENTS_PROVIDER

\* The statuses a Stripe PaymentIntent can report.
StripeIntentStatuses ==
    { "requires_payment_method", "requires_action", "processing", "succeeded" }

\* Payment.status is a CharField(max_length=20): PostgreSQL refuses a longer value.
STATUS_MAX_LENGTH == 20

\* Outcomes of provider.capture_payment(invoice): a payment status, or
\* "StripeError" when the gateway call raises (re-raised as PaymentError).
CaptureOutcomes ==
    IF get_provider_name = "dummy"
    THEN {"succeeded"}
    ELSE StripeIntentStatuses \cup {"StripeError"}

\* The result dict of capture_payment for a capture that did not raise.
capture_payment(invoice, outcome, ref) ==
    [ status       |-> outcome,
      amount_cents |-> invoice.total_cents,
      currency     |-> IF get_provider_name = "dummy" THEN invoice.currency ELSE "usd",
      processed_at |-> now,
      provider_ref |-> ref ]

(***************************************************************************)
(* Request handlers of InvoiceDetailView                                   *)
(***************************************************************************)
NoRow == [status |-> None]

NoData == [status |-> None]

NoPayload == [wellformed |-> FALSE]

IdleReq == [op |-> "none", pc |-> "idle", inv |-> 0, local |-> NoRow,
            data |-> NoData, payload |-> NoPayload, signature |-> None,
            response |-> None]

\* The handler returns its response; its model instances are dropped.
Respond(r, code) ==
    reqs' = [reqs EXCEPT ![r].pc = "done", ![r].response = code,
                         ![r].local = NoRow, ![r].data = NoData]

\* Slots are taken in order (a slot number is only a label of the request), and
\* at most MaxInFlight handlers run at a time.
CanStart(r) ==
    /\ reqs[r].pc = "idle"
    /\ Cardinality({q \in ReqIds : reqs[q].pc \notin {"idle", "done"}}) < MaxInFlight
    /\ \A q \in ReqIds : q < r => reqs[q].pc # "idle"

\* Invoice.save(): every field of the instance is written to the row.
SaveInvoice(i, row) ==
    /\ invoices' = [invoices EXCEPT ![i] = row]
    /\ paid_count' = [paid_count EXCEPT ![i] =
           IF row.status = "paid" /\ invoices[i].status # "paid" THEN @ + 1 ELSE @]

\* (a finalize view without its status check)
FinalizeAllowed_Any(invoice) == TRUE

\* `if invoice.status != 'draft'` answers 400.
FinalizeAllowed(invoice) == invoice.status = "draft"

\* finalize: get_object() and the draft check.
FinalizeBegin(r, i) ==
    /\ CanStart(r)
    /\ IF ~FinalizeAllowed(invoices[i])
       THEN reqs' = [reqs EXCEPT ![r] = [IdleReq EXCEPT !.op = "finalize", !.inv = i,
                        !.pc = "done", !.response = "400 Invoice is not in draft status"]]
       ELSE reqs' = [reqs EXCEPT ![r] = [IdleReq EXCEPT !.op = "finalize", !.inv = i,
                        !.pc = "fin_loaded", !.local = invoices[i]]]
    /\ UNCHANGED <<settings, now, invoices, items, payments, intents, paid_count>>
    /\ UNCHANGED sub_vars
    /\ UNCHANGED other_vars

\* The totals the finalize view computes from the invoice's items.
FinalizeTotal(invoice, its) ==
    SumItems(its) + calculate_tax_amount(SumItems(its)) - invoice.discount_cents

\* (a finalize that trusts the subtotal stored on the draft)
FinalizeSubtotal_Stored(invoice, its) == invoice.subtotal_cents

FinalizeSubtotal(invoice, its) == SumItems(its)

FinalizedRow(invoice, its) ==
    [invoice EXCEPT !.subtotal_cents = FinalizeSubtotal(invoice, its),
                    !.tax_cents      = calculate_tax_amount(FinalizeSubtotal(invoice, its)),
                    !.total_cents    = FinalizeTotal(invoice, its),
                    !.status         = IF @ = "draft" THEN "open" ELSE @]

\* finalize: the totals, Invoice.finalize() and its save().
FinalizeSave(r) ==
    /\ reqs[r].pc = "fin_loaded"
    /\ LET i   == reqs[r].inv
           row == FinalizedRow(reqs[r].local, items[i])
       IN  IF InvoiceRowStorable(row)
           THEN /\ SaveInvoice(i, row)
                /\ Respond(r, "200 Invoice finalized successfully")
           ELSE /\ Respond(r, "500 IntegrityError")
                /\ UNCHANGED <<invoices, paid_count>>
    /\ UNCHANGED <<settings, now, items, payments, intents>>
    /\ UNCHANGED sub_vars
    /\ UNCHANGED other_vars

\* (a pay view without its status check)
PayAllowed_Any(invoice) == TRUE

\* `if invoice.status != 'open'` answers 400.
PayAllowed(invoice) == invoice.status = "open"

\* pay: get_object() and the open check.
PayBegin(r, i) ==
    /\ CanStart(r)
    /\ IF ~PayAllowed(invoices[i])
       THEN reqs' = [reqs EXCEPT ![r] = [IdleReq EXCEPT !.op = "pay", !.inv = i,
                        !.pc = "done", !.response = "400 Invoice is not open for payment"]]
       ELSE reqs' = [reqs EXCEPT ![r] = [IdleReq EXCEPT !.op = "pay", !.inv = i,
                        !.pc = "pay_loaded", !.local = invoices[i]]]
    /\ UNCHANGED <<settings, now, invoices, items, payments, intents, paid_count>>
    /\ UNCHANGED sub_vars
    /\ UNCHANGED other_vars

\* pay: provider.capture_payment(invoice).
PayCapture(r) ==
    /\ reqs[r].pc = "pay_loaded"
    /\ \E outcome \in CaptureOutcomes :
          IF outcome = "StripeError"
          THEN /\ Respond(r, "400 Payment failed")
               /\ UNCHANGED intents
          ELSE /\ intents' = intents + 1
               /\ reqs' = [reqs EXCEPT ![r].pc = "pay_captured",
                              ![r].data = capture_payment(reqs[r].local, outcome, intents + 1)]
    /\ UNCHANGED <<settings, now, invoices, items, payments, paid_count>>
    /\ UNCHANGED sub_vars
    /\ UNCHANGED other_vars

\* The text of the n-th reference a provider issues: DummyProvider builds
\* "dummy_payment_" and eight hexadecimal digits; Stripe's PaymentIntent ids
\* begin with "pi_".
RefText(n) ==
    IF get_provider_name = "dummy"
    THEN "dummy_payment_" \o "0000000" \o ToString(n)
    ELSE "pi_" \o ToString(n)

\* payment_data['provider_ref'][:20]
Prefix20(text) == IF Len(text) > 20 THEN SubSeq(text, 1, 20) ELSE text

\* The row Payment.objects.create() inserts.
PaymentRow(i, data) ==
    [ invoice        |-> i,
      provider       |-> Prefix20(RefText(data.provider_ref)),
      provider_ref   |-> data.provider_ref,
      amount_cents   |-> data.amount_cents,
      currency       |-> data.currency,
      status         |-> data.status,
      processed_at   |-> data.processed_at,
      failure_reason |-> "" ]

\* pay: Payment.objects.create(...); an over-long status raises DataError,
\* which the handler's except clause reports as a failed payment.
PayCreate(r) ==
    /\ reqs[r].pc = "pay_captured"
    /\ IF Len(reqs[r].data.status) > STATUS_MAX_LENGTH
       THEN /\ Respond(r, "400 Payment failed")
            /\ UNCHANGED payments
       ELSE /\ payments' = Append(payments, PaymentRow(reqs[r].inv, reqs[r].data))
            /\ IF reqs[r].data.status = "succeeded"
               THEN reqs' = [reqs EXCEPT ![r].pc = "pay_created"]
               ELSE Respond(r, "200 Payment processed successfully")
    /\ UNCHANGED <<settings, now, invoices, items, intents, paid_count>>
    /\ UNCHANGED sub_vars
    /\ UNCHANGED other_vars

\* Invoice.mark_as_paid() on the handler's instance.
mark_as_paid(invoice) ==
    [invoice EXCEPT !.status = "paid", !.paid_at = now]

\* pay: invoice.mark_as_paid() after a succeeded capture, then the response.
PayMark(r) ==
    /\ reqs[r].pc = "pay_created"
    /\ SaveInvoice(reqs[r].inv, mark_as_paid(reqs[r].local))
    /\ Respond(r, "200 Payment processed successfully")
    /\ UNCHANGED <<settings, now, items, payments, intents>>
    /\ UNCHANGED sub_vars
    /\ UNCHANGED other_vars

(***************************************************************************)
(* Webhooks: provider.parse_webhook and PaymentWebhookView                 *)
(***************************************************************************)
EventTypes ==
    { "payment_intent.succeeded", "payment_intent.payment_failed", "charge.refunded" }

\* A signature is named by the key that produced it; "forged" is any other key.
Signatures == {"whsec", "forged"}

Malformed == [wellformed |-> FALSE]

\* Raw payloads: malformed bytes, or an event about a provider reference
\* (reference 0 is one that no stored Payment carries).
Payloads(refs) ==
    {Malformed} \cup
    { [wellformed |-> TRUE, type |-> t, ref |-> k, created |-> now] :
        t \in EventTypes, k \in refs }

Raised(message) == [error |-> message]

NormalizedEvent(type, created, ref, status) ==
    [ error |-> None, type |-> type, created |-> created,
      object |-> [id |-> ref, status |-> status] ]

\* DummyProvider.parse_webhook: payload and signature are not read; the event is
\* always a success event about a freshly drawn reference.
DummyParseWebhook(payload, signature) ==
    NormalizedEvent("payment_intent.succeeded", now, 0, "succeeded")

\* (a parse_webhook that decodes the payload without verifying its signature)
StripeParseWebhook_Unverified(payload, signature) ==
    IF ~payload.wellformed
    THEN Raised("Invalid payload")
    ELSE NormalizedEvent(payload.type, payload.created, payload.ref, None)

\* (a parse_webhook that refuses the event types the handler does not know)
StripeParseWebhook_KnownTypesOnly(payload, signature) ==
    IF settings.STRIPE_WEBHOOK_SECRET = ""
    THEN Raised("Stripe webhook secret not configured")
    ELSE IF signature # settings.STRIPE_WEBHOOK_SECRET
    THEN Raised("Invalid signature")
    ELSE IF ~payload.wellformed
    THEN Raised("Invalid payload")
    ELSE IF payload.type \notin {"payment_intent.succeeded",
                                 "payment_intent.payment_failed"}
    THEN Raised("Unhandled event type")
    ELSE NormalizedEvent(payload.type, payload.created, payload.ref, None)

\* StripeProvider.parse_webhook: the secret must be configured, then
\* stripe.Webhook.construct_event checks the signature and decodes the payload.
StripeParseWebhook(payload, signature) ==
    IF settings.STRIPE_WEBHOOK_SECRET = ""
    THEN Raised("Stripe webhook secret not configured")
    ELSE IF signature # settings.STRIPE_WEBHOOK_SECRET
    THEN Raised("Invalid signature")
    ELSE IF ~payload.wellformed
    THEN Raised("Invalid payload")
    ELSE NormalizedEvent(payload.type, payload.created, payload.ref, None)

parse_webhook(payload, signature) ==
    IF get_provider_name = "dummy"
    THEN DummyParseWebhook(payload, signature)
    ELSE StripeParseWebhook(payload, signature)

\* The Payment rows with provider reference ref.
PaymentsWithRef(ref) ==
    { k \in 1..Len(payments) : payments[k].provider_ref = ref }

\* (a reconciler that applies each event to the Payment rows it names, a failure
\* event included, whatever the row's status)
process_webhook_event_payments_Applying(event) ==
    [ k \in 1..Len(payments) |->
        IF payments[k].provider_ref # event.object.id THEN payments[k]
        ELSE IF event.type = "payment_intent.succeeded"
        THEN [payments[k] EXCEPT !.status = "succeeded", !.processed_at = event.created]
        ELSE IF event.type = "payment_intent.payment_failed"
        THEN [payments[k] EXCEPT !.status = "failed", !.failure_reason = "provider"]
        ELSE payments[k] ]

\* PaymentWebhookView.process_webhook_event: both branches are `pass`; the
\* Payment table after the call is the table before it.
process_webhook_event_payments(event) == payments

\* ... and so is the Invoice table.
process_webhook_event_invoices(event) == invoices

\* References a delivery may name: those of the stored payments, and 0.
HookRefs == {0} \cup { payments[k].provider_ref : k \in 1..Len(payments) }

\* PaymentWebhookView.create: parse, process, respond; any exception is a 400.
Webhook(r) ==
    /\ CanStart(r)
    /\ Cardinality({q \in ReqIds : reqs[q].op = "webhook"}) < MaxHooks
    /\ \E payload \in Payloads(HookRefs), signature \in Signatures :
         LET event == parse_webhook(payload, signature)
             req   == [IdleReq EXCEPT !.op = "webhook", !.pc = "done",
                                      !.payload = payload, !.signature = signature]
         IN  IF event.error # None
             THEN /\ reqs' = [reqs EXCEPT ![r] = [req EXCEPT !.response = "400 " \o event.error]]
                  /\ UNCHANGED <<payments, invoices, paid_count>>
             ELSE /\ payments' = process_webhook_event_payments(event)
                  /\ invoices' = process_webhook_event_invoices(event)
                  /\ paid_count' = [i \in InvoiceIds |->
                        IF invoices'[i].status = "paid" /\ invoices[i].status # "paid"
                        THEN paid_count[i] + 1 ELSE paid_count[i]]
                  /\ reqs' = [reqs EXCEPT ![r] = [req EXCEPT !.response = "200 success"]]
    /\ UNCHANGED <<settings, now, items, intents>>
    /\ UNCHANGED sub_vars
    /\ UNCHANGED other_vars

(***************************************************************************)
(* billing/models.py: Plan, Coupon, Subscription                           *)
(***************************************************************************)
Plans ==
    [ basic      |-> [price_cents |-> 900,   interval |-> "monthly", trial_days |-> 14],
      enterprise |-> [price_cents |-> 9900,  interval |-> "monthly", trial_days |-> 0],
      annual     |-> [price_cents |-> 29000, interval |-> "yearly",  trial_days |-> 0] ]

PlanIds == DOMAIN Plans

Users == {"alice", "bob"}

CouponCodes == {"WELCOME20"}

\* Coupon codes a request may carry: none, a stored code, a code of no coupon.
RequestCodes == {None, "WELCOME20", "BOGUS"}

\* Coupon.is_valid(): `x and ...` skips the test when x is None or 0.
is_valid(coupon) ==
    /\ coupon.active
    /\ ~(coupon.expires_at # Null /\ now > coupon.expires_at)
    /\ ~(/\ coupon.max_redemptions # Null
         /\ coupon.max_redemptions # 0
         /\ coupon.times_redeemed >= coupon.max_redemptions)

Min(a, b) == IF a <= b THEN a ELSE b

\* (a calculate_discount whose fixed amount is not capped by the amount discounted)
calculate_discount_Uncapped(coupon, amount_cents) ==
    IF ~is_valid(coupon) THEN 0
    ELSE IF coupon.discount_type = "percent" /\ coupon.percent_off \notin {Null, 0}
    THEN (amount_cents * coupon.percent_off) \div 100
    ELSE IF coupon.discount_type = "amount" /\ coupon.amount_off_cents \notin {Null, 0}
    THEN coupon.amount_off_cents
    ELSE 0

\* Coupon.calculate_discount(amount_cents); `x and ...` is false for None and 0.
calculate_discount(coupon, amount_cents) ==
    IF ~is_valid(coupon) THEN 0
    ELSE IF coupon.discount_type = "percent" /\ coupon.percent_off \notin {Null, 0}
    THEN (amount_cents * coupon.percent_off) \div 100
    ELSE IF coupon.discount_type = "amount" /\ coupon.amount_off_cents \notin {Null, 0}
    THEN Min(coupon.amount_off_cents, amount_cents)
    ELSE 0

\* The coupon WELCOME20 as the seed command stores it.
WelcomeCoupon ==
    [ discount_type    |-> "percent",
      percent_off      |-> 20,
      amount_off_cents |-> Null,
      expires_at       |-> Null,
      max_redemptions  |-> 100,
      times_redeemed   |-> 0,
      active           |-> TRUE ]

\* timedelta(days=30) for a monthly plan, timedelta(days=365) otherwise.
MONTH_DAYS == 30

YEAR_DAYS == 365

PeriodEnd(plan, t) ==
    IF Plans[plan].interval = "monthly" THEN t + MONTH_DAYS ELSE t + YEAR_DAYS

\* (a creation that ignores the plan's trial)
InitialStatus_Active(plan) == "active"

\* status = 'trialing' if plan.trial_days > 0 else 'active'
InitialStatus(plan) ==
    IF Plans[plan].trial_days > 0 THEN "trialing" ELSE "active"

SubscriptionRow(user, plan, code) ==
    [ customer             |-> user,
      plan                 |-> plan,
      coupon               |-> code,
      status               |-> InitialStatus(plan),
      current_period_start |-> now,
      current_period_end   |-> PeriodEnd(plan, now),
      cancel_at_period_end |-> FALSE,
      ended_at             |-> Null ]

(***************************************************************************)
(* SubscriptionListCreateView.perform_create, inside transaction.atomic()  *)
(***************************************************************************)
CreateIds == 1..MaxCreate

NoCoupon == [active |-> None]

IdleCreate == [pc |-> "idle", user |-> None, plan |-> None, code |-> None,
               coupon |-> NoCoupon, response |-> None]

CanStartCreate(c) ==
    /\ creates[c].pc = "idle"
    /\ \A q \in CreateIds : q < c => creates[q].pc # "idle"

\* Coupon.objects.get(code=coupon_code, active=True) followed by is_valid().
CouponAccepted(code) ==
    /\ code \in DOMAIN coupons
    /\ coupons[code].active
    /\ is_valid(coupons[code])

\* The name `serializers` is not bound in billing/views.py, so the statement
\* `raise serializers.ValidationError(...)` raises NameError.
COUPON_REJECTION == "500 NameError"

\* The statements up to the coupon check: the handler reads the committed coupon
\* row.  A rejection leaves the atomic block by an exception: nothing is stored.
CreateBegin(c, user, plan, code) ==
    /\ CanStartCreate(c)
    /\ IF code # None /\ ~CouponAccepted(code)
       THEN creates' = [creates EXCEPT ![c] = [IdleCreate EXCEPT !.pc = "done",
                           !.user = user, !.plan = plan, !.code = code,
                           !.response = COUPON_REJECTION]]
       ELSE creates' = [creates EXCEPT ![c] = [IdleCreate EXCEPT !.pc = "validated",
                           !.user = user, !.plan = plan, !.code = code,
                           !.coupon = IF code = None THEN NoCoupon ELSE coupons[code]]]
    /\ UNCHANGED <<settings, now, coupons, subscriptions, customers>>
    /\ UNCHANGED billing_vars
    /\ UNCHANGED other_vars

\* coupon.times_redeemed += 1 on the handler's instance.
Redeemed(coupon) == [coupon EXCEPT !.times_redeemed = @ + 1]

\* serializer.save(...), the increment, coupon.save() and the commit of the
\* atomic block: the inserted rows and the coupon row written from the handler's
\* instance become visible together.
CreateCommit(c) ==
    /\ creates[c].pc = "validated"
    /\ customers' = customers \cup {creates[c].user}
    /\ subscriptions' = Append(subscriptions,
           SubscriptionRow(creates[c].user, creates[c].plan, creates[c].code))
    /\ coupons' = IF creates[c].code = None THEN coupons
                  ELSE [coupons EXCEPT ![creates[c].code] = Redeemed(creates[c].coupon)]
    /\ creates' = [creates EXCEPT ![c].pc = "done", ![c].coupon = NoCoupon,
                                  ![c].response = "201 Created"]
    /\ UNCHANGED <<settings, now>>
    /\ UNCHANGED billing_vars
    /\ UNCHANGED other_vars

TickSub ==
    /\ now < MaxNow
    /\ now' = now + 1
    /\ UNCHANGED <<settings, coupons, subscriptions, customers, creates>>
    /\ UNCHANGED billing_vars
    /\ UNCHANGED other_vars

\* Coupons an administrator may have stored; none has been redeemed yet.
StoredCoupons ==
    [ discount_type    : {"percent"},
      percent_off      : {20},
      amount_off_cents : {Null},
      expires_at       : {Null, 0},
      max_redemptions  : {Null, 0, 1},
      times_redeemed   : {0},
      active           : BOOLEAN ]

\* No email has been sent and no invoice number allocated.
OtherIdle ==
    /\ outbox = <<>>
    /\ clock_ms = 0
    /\ numbers = <<>>
    /\ last_call = NoCall
    /\ cancels = <<>>
    /\ dummy_payments = <<>>

BillingIdle ==
    /\ invoices = <<>>
    /\ items = <<>>
    /\ payments = <<>>
    /\ intents = 0
    /\ reqs = <<>>
    /\ paid_count = <<>>

SubInit ==
    /\ settings \in {d \in Deployments : d.PAYMENTS_PROVIDER = "dummy"}
    /\ now = 0
    /\ coupons \in [CouponCodes -> StoredCoupons]
    /\ subscriptions = <<>>
    /\ customers \in {{}, {"alice"}}
    /\ creates = [c \in CreateIds |-> IdleCreate]
    /\ BillingIdle
    /\ OtherIdle

SubNext ==
    \/ \E c \in CreateIds, user \in Users, plan \in PlanIds, code \in RequestCodes :
          CreateBegin(c, user, plan, code)
    \/ \E c \in CreateIds : CreateCommit(c)
    \/ TickSub

SubSpec == SubInit /\ [][SubNext]_vars

(***************************************************************************)
(* The billing specification: finalize, pay and webhook requests           *)
(***************************************************************************)
SubIdle ==
    /\ coupons = <<>>
    /\ subscriptions = <<>>
    /\ customers = {}
    /\ creates = <<>>

Init ==
    /\ settings \in Deployments
    /\ now = 0
    /\ \E seed \in [InvoiceIds -> InvoiceSeeds] :
          /\ items = [i \in InvoiceIds |-> seed[i].items]
          /\ invoices = [i \in InvoiceIds |-> SeedInvoice(seed[i])]
    /\ payments = <<>>
    /\ intents = 0
    /\ reqs = [r \in ReqIds |-> IdleReq]
    /\ paid_count = [i \in InvoiceIds |-> 0]
    /\ SubIdle
    /\ OtherIdle

Next ==
    \/ \E r \in ReqIds, i \in InvoiceIds : FinalizeBegin(r, i)
    \/ \E r \in ReqIds : FinalizeSave(r)
    \/ \E r \in ReqIds, i \in InvoiceIds : PayBegin(r, i)
    \/ \E r \in ReqIds : PayCapture(r)
    \/ \E r \in ReqIds : PayCreate(r)
    \/ \E r \in ReqIds : PayMark(r)
    \/ \E r \in ReqIds : Webhook(r)

Spec == Init /\ [][Next]_vars

(***************************************************************************)
(* The invoice engine with the clock and Invoice.void()                    *)
(***************************************************************************)
\* Invoice.void(): the status is set whatever it was.
void(invoice) == [invoice EXCEPT !.status = "void"]

\* A caller voids invoice i: void() on the instance it has just loaded.
Void(i) ==
    /\ SaveInvoice(i, void(invoices[i]))
    /\ UNCHANGED <<settings, now, items, payments, intents, reqs>>
    /\ UNCHANGED sub_vars
    /\ UNCHANGED other_vars

EngineNext ==
    \/ Next
    \/ TickSub
    \/ \E i \in InvoiceIds : Void(i)

EngineSpec == Init /\ [][EngineNext]_vars

(***************************************************************************)
(* core/utils.py: generate_invoice_number                                  *)
(***************************************************************************)
MaxAlloc == 3

\* int(time.time() * 1000) % 10000
INVOICE_NUMBER_MODULUS == 10000

\* The clock sample at which datetime.now().year changes.
NewYearAt == 15000

YearOf(ms) == IF ms < NewYearAt THEN 2024 ELSE 2025

\* f"INV-{year}-{timestamp:04d}": the year and the four digits.
generate_invoice_number(ms) == <<"INV", YearOf(ms), ms % INVOICE_NUMBER_MODULUS>>

\* Milliseconds that may pass between two allocations.
ClockSteps == {0, 1, 5000, INVOICE_NUMBER_MODULUS}

\* d milliseconds after the previous allocation a caller allocates a number.
Allocate(d) ==
    /\ Len(numbers) < MaxAlloc
    /\ clock_ms' = clock_ms + d
    /\ numbers' = Append(numbers, generate_invoice_number(clock_ms + d))
    /\ UNCHANGED <<settings, now, outbox, last_call, cancels, dummy_payments>>
    /\ UNCHANGED billing_vars
    /\ UNCHANGED sub_vars

NumberInit ==
    /\ settings \in {d \in Deployments : d.PAYMENTS_PROVIDER = "dummy"}
    /\ now = 0
    /\ clock_ms \in {0, 4999, 9999}
    /\ numbers = <<>>
    /\ outbox = <<>>
    /\ last_call = NoCall
    /\ cancels = <<>>
    /\ dummy_payments = <<>>
    /\ BillingIdle
    /\ SubIdle

NumberNext == \E d \in ClockSteps : Allocate(d)

NumberSpec == NumberInit /\ [][NumberNext]_vars

(***************************************************************************)
(* billing/models.py: Coupon.calculate_discount on the stored coupons      *)
(***************************************************************************)
\* Coupons the table can hold: percent_off is NULL or within its validators
\* (1..100), amount_off_cents is NULL or >= 0, the counters are >= 0.
QuoteCoupons ==
    [ discount_type    : {"percent", "amount"},
      percent_off      : {Null, 1, 20, 100},
      amount_off_cents : {Null, 0, 500, 5000},
      expires_at       : {Null, 0, 1},
      max_redemptions  : {Null, 0, 1},
      times_redeemed   : {0, 1},
      active           : BOOLEAN ]

\* Amounts a discount is asked for.
QuoteAmounts == {0, 1, 99, 250, 2900}

\* A caller asks for the discount of the stored coupon on an amount.
Quote(code, amount_cents) ==
    /\ last_call' = [ op     |-> "calculate_discount",
                      coupon |-> coupons[code],
                      at     |-> now,
                      amount |-> amount_cents,
                      result |-> calculate_discount(coupons[code], amount_cents) ]
    /\ UNCHANGED <<settings, now, outbox, clock_ms, numbers, cancels, dummy_payments>>
    /\ UNCHANGED billing_vars
    /\ UNCHANGED sub_vars

DiscountInit ==
    /\ settings \in {d \in Deployments : d.PAYMENTS_PROVIDER = "dummy"}
    /\ now = 0
    /\ coupons \in [CouponCodes -> QuoteCoupons]
    /\ subscriptions = <<>>
    /\ customers = {}
    /\ creates = <<>>
    /\ BillingIdle
    /\ OtherIdle

DiscountNext ==
    \/ \E code \in CouponCodes, amount_cents \in QuoteAmounts : Quote(code, amount_cents)
    \/ TickSub

DiscountSpec == DiscountInit /\ [][DiscountNext]_vars

(***************************************************************************)
(* SubscriptionDetailView.cancel and Subscription.cancel                   *)
(***************************************************************************)
MaxCancel == 2

CancelIds == 1..MaxCancel

\* (a cancel that always cancels at once)
cancel_Immediate(subscription, at_period_end) ==
    [subscription EXCEPT !.status = "canceled", !.ended_at = now]

\* Subscription.cancel(at_period_end) on the handler's instance.
cancel(subscription, at_period_end) ==
    IF at_period_end
    THEN [subscription EXCEPT !.cancel_at_period_end = TRUE]
    ELSE [subscription EXCEPT !.status = "canceled", !.ended_at = now]

IdleCancel == [pc |-> "idle", sub |-> 0, at_period_end |-> TRUE, local |-> NoRow,
               response |-> None]

CanStartCancel(c) ==
    /\ cancels[c].pc = "idle"
    /\ \A q \in CancelIds : q < c => cancels[q].pc # "idle"

\* cancel: get_object() and request.data.get('cancel_at_period_end', True).
CancelBegin(c, k, at_period_end) ==
    /\ CanStartCancel(c)
    /\ cancels' = [cancels EXCEPT ![c] = [IdleCancel EXCEPT !.pc = "loaded", !.sub = k,
                       !.at_period_end = at_period_end, !.local = subscriptions[k]]]
    /\ UNCHANGED <<settings, now, outbox, clock_ms, numbers, last_call, dummy_payments>>
    /\ UNCHANGED billing_vars
    /\ UNCHANGED sub_vars

\* cancel: subscription.cancel(...), whose save() writes every field of the
\* instance, then the response.
CancelSave(c) ==
    /\ cancels[c].pc = "loaded"
    /\ subscriptions' = [subscriptions EXCEPT ![cancels[c].sub] =
                            cancel(cancels[c].local, cancels[c].at_period_end)]
    /\ cancels' = [cancels EXCEPT ![c].pc = "done", ![c].local = NoRow,
                       ![c].response = "200 Subscription canceled successfully"]
    /\ UNCHANGED <<settings, now, outbox, clock_ms, numbers, last_call, dummy_payments>>
    /\ UNCHANGED billing_vars
    /\ UNCHANGED <<coupons, customers, creates>>

\* The subscription in the table when the cancel requests start: as a creation
\* left it, or canceled at time 0 by an earlier request.
SubscriptionSeeds ==
    { SubscriptionRow("alice", plan, None) : plan \in {"basic", "enterprise"} }
    \cup { [SubscriptionRow("alice", "enterprise", None) EXCEPT
               !.status = "canceled", !.ended_at = 0, !.cancel_at_period_end = flag] :
           flag \in BOOLEAN }

CancelInit ==
    /\ settings \in {d \in Deployments : d.PAYMENTS_PROVIDER = "dummy"}
    /\ now = 0
    /\ coupons = <<>>
    /\ subscriptions \in { <<row>> : row \in SubscriptionSeeds }
    /\ customers = {"alice"}
    /\ creates = <<>>
    /\ outbox = <<>>
    /\ clock_ms = 0
    /\ numbers = <<>>
    /\ last_call = NoCall
    /\ cancels = [c \in CancelIds |-> IdleCancel]
    /\ dummy_payments = <<>>
    /\ BillingIdle

CancelNext ==
    \/ \E c \in CancelIds, k \in 1..Len(subscriptions), at_period_end \in BOOLEAN :
          CancelBegin(c, k, at_period_end)
    \/ \E c \in CancelIds : CancelSave(c)
    \/ TickSub

CancelSpec == CancelInit /\ [][CancelNext]_vars

(***************************************************************************)
(* billing/payments: refund, get_payment_status, create_checkout           *)
(***************************************************************************)
\* Payments a refund is asked for.
RefundPayments ==
    { [amount_cents |-> a, currency |-> c, provider_ref |-> "pi_1"] :
        a \in {500, 1000}, c \in {"USD", "EUR"} }

\* Requested refund amounts; Null stands for an omitted amount_cents.
RefundAmounts == {Null, 1, 500, 1000, 1001}

\* What stripe.Refund.create can do: return a refund in one of Stripe's refund
\* statuses, or raise a StripeError.
StripeRefundOutcomes == {"succeeded", "pending", "failed", "StripeError"}

RefundOutcomes ==
    IF get_provider_name = "dummy" THEN {"succeeded"} ELSE StripeRefundOutcomes

\* DummyProvider.refund: no check of the amount, always succeeded.
DummyRefund(payment, amount_cents) ==
    [ raised       |-> None,
      status       |-> "succeeded",
      amount_cents |-> IF amount_cents = Null THEN payment.amount_cents
                       ELSE amount_cents,
      original_amount_cents |-> payment.amount_cents ]

\* StripeProvider.refund: the amount goes to the gateway unchecked; the gateway
\* refunds the amount it was given, or the whole payment when it was given none;
\* a StripeError is re-raised as PaymentError.
StripeRefund(payment, amount_cents, outcome) ==
    IF outcome = "StripeError"
    THEN [ raised |-> "PaymentError", status |-> None, amount_cents |-> Null,
           original_amount_cents |-> Null ]
    ELSE [ raised       |-> None,
           status       |-> outcome,
           amount_cents |-> IF amount_cents = Null THEN payment.amount_cents
                            ELSE amount_cents,
           original_amount_cents |-> payment.amount_cents ]

refund(payment, amount_cents, outcome) ==
    IF get_provider_name = "dummy"
    THEN DummyRefund(payment, amount_cents)
    ELSE StripeRefund(payment, amount_cents, outcome)

Refund(payment, amount_cents, outcome) ==
    /\ last_call' = [ op      |-> "refund",
                      payment |-> payment,
                      amount  |-> amount_cents,
                      result  |-> refund(payment, amount_cents, outcome) ]
    /\ UNCHANGED <<settings, now, outbox, clock_ms, numbers, cancels, dummy_payments>>
    /\ UNCHANGED billing_vars
    /\ UNCHANGED sub_vars

\* References a status is asked for.
PaymentRefs == {"dummy_payment_1", "non_existent"}

\* DummyProvider.payments of the provider instance that is asked: empty in a
\* new instance, or holding the payment the instance captured (succeeded, or
\* failed after simulate_payment_failure).
StoredStatuses == {None, "succeeded", "failed"}

Resolvable(payment_ref, stored) == payment_ref = "dummy_payment_1" /\ stored # None

\* random.choice(['succeeded', 'failed', 'pending'])
RandomStatuses == {"succeeded", "failed", "pending"}

DummyGetPaymentStatus(payment_ref, stored, choice) ==
    IF Resolvable(payment_ref, stored) THEN stored ELSE choice

\* What stripe.PaymentIntent.retrieve can do: return an intent in one of its
\* statuses, or raise a StripeError (no such intent, no connection).
StripeGetPaymentStatus(retrieved) ==
    IF retrieved = "StripeError" THEN "unknown" ELSE retrieved

GetPaymentStatus(payment_ref) ==
    /\ \/ /\ get_provider_name = "dummy"
          /\ \E stored \in StoredStatuses, choice \in RandomStatuses :
                last_call' = [ op       |-> "get_payment_status",
                               ref      |-> payment_ref,
                               resolved |-> Resolvable(payment_ref, stored),
                               result   |-> DummyGetPaymentStatus(payment_ref, stored,
                                                                  choice) ]
       \/ /\ get_provider_name # "dummy"
          /\ \E retrieved \in StripeIntentStatuses \cup {"StripeError"} :
                last_call' = [ op       |-> "get_payment_status",
                               ref      |-> payment_ref,
                               resolved |-> retrieved # "StripeError",
                               result   |-> StripeGetPaymentStatus(retrieved) ]
    /\ UNCHANGED <<settings, now, outbox, clock_ms, numbers, cancels, dummy_payments>>
    /\ UNCHANGED billing_vars
    /\ UNCHANGED sub_vars

\* Plan.currency and Invoice.currency are free three-letter columns.
Currencies == {"USD", "EUR"}

\* Objects handed to create_checkout: an invoice (total_cents, currency), a
\* subscription (plan, and no currency of its own), or an object with neither.
CheckoutPayables ==
    { [total_cents |-> t, currency |-> c] : t \in {0, 2567}, c \in Currencies }
    \cup { [plan |-> [price_cents |-> Plans[p].price_cents, currency |-> c]] :
             p \in PlanIds, c \in Currencies }
    \cup { [id |-> 1] }

\* hasattr(obj, name)
hasattr(obj, name) == name \in DOMAIN obj

\* str.lower() on the currency codes in use.
Lower(c) == CASE c = "USD" -> "usd" [] c = "EUR" -> "eur" [] OTHER -> c

\* DummyProvider.create_checkout: getattr(obj, 'currency', 'USD').
DummyCreateCheckout(payable) ==
    [ raised       |-> None,
      amount_cents |-> IF hasattr(payable, "total_cents") THEN payable.total_cents
                       ELSE IF hasattr(payable, "plan") THEN payable.plan.price_cents
                       ELSE 0,
      currency     |-> IF hasattr(payable, "currency") THEN payable.currency ELSE "USD",
      status       |-> "open" ]

CheckoutRaised == [raised |-> "PaymentError", amount_cents |-> Null, currency |-> None,
                   status |-> None]

\* StripeProvider.create_checkout; session is what stripe.checkout.Session.create
\* does: the status of the new session, or "StripeError".
StripeCreateCheckout(payable, session) ==
    IF ~hasattr(payable, "total_cents") /\ ~hasattr(payable, "plan")
    THEN CheckoutRaised
    ELSE IF session = "StripeError"
    THEN CheckoutRaised
    ELSE [ raised       |-> None,
           amount_cents |-> IF hasattr(payable, "total_cents")
                            THEN payable.total_cents
                            ELSE payable.plan.price_cents,
           currency     |-> IF hasattr(payable, "total_cents")
                            THEN Lower(payable.currency)
                            ELSE Lower(payable.plan.currency),
           status       |-> session ]

CheckoutOutcomes ==
    IF get_provider_name = "dummy" THEN {"open"} ELSE {"open", "StripeError"}

create_checkout(payable, session) ==
    IF get_provider_name = "dummy"
    THEN DummyCreateCheckout(payable)
    ELSE StripeCreateCheckout(payable, session)

CreateCheckout(payable, session) ==
    /\ last_call' = [ op      |-> "create_checkout",
                      payable |-> payable,
                      result  |-> create_checkout(payable, session) ]
    /\ UNCHANGED <<settings, now, outbox, clock_ms, numbers, cancels, dummy_payments>>
    /\ UNCHANGED billing_vars
    /\ UNCHANGED sub_vars

ProviderInit ==
    /\ settings \in Deployments
    /\ now = 0
    /\ SubIdle
    /\ BillingIdle
    /\ OtherIdle

ProviderNext ==
    \/ \E payment \in RefundPayments, amount_cents \in RefundAmounts,
          outcome \in RefundOutcomes : Refund(payment, amount_cents, outcome)
    \/ \E payment_ref \in PaymentRefs : GetPaymentStatus(payment_ref)
    \/ \E payable \in CheckoutPayables, session \in CheckoutOutcomes :
          CreateCheckout(payable, session)

ProviderSpec == ProviderInit /\ [][ProviderNext]_vars

(***************************************************************************)
(* billing/payments/dummy.py: one DummyProvider instance and its store     *)
(***************************************************************************)
\* References uuid4().hex[:8] can produce; two captures may draw the same one.
DummyRefs == {"dummy_payment_1", "dummy_payment_2"}

\* Invoices handed to capture_payment.
CaptureInvoices ==
    { [id |-> 1, total_cents |-> t, currency |-> c] :
        t \in {0, 1000, 2567}, c \in Currencies }

\* (a capture that reports the payment as pending)
DummyCapturePayment_Pending(invoice, payment_id) ==
    [ id           |-> payment_id,
      status       |-> "pending",
      amount_cents |-> invoice.total_cents,
      currency     |-> invoice.currency,
      processed_at |-> now,
      provider_ref |-> payment_id ]

\* payment_data of DummyProvider.capture_payment.
DummyCapturePayment(invoice, payment_id) ==
    [ id           |-> payment_id,
      status       |-> "succeeded",
      amount_cents |-> invoice.total_cents,
      currency     |-> invoice.currency,
      processed_at |-> now,
      provider_ref |-> payment_id ]

\* capture_payment on the instance: self.payments[payment_id] = payment_data.
DummyCapture(invoice, payment_id) ==
    /\ dummy_payments' = (payment_id :> DummyCapturePayment(invoice, payment_id))
                         @@ dummy_payments
    /\ last_call' = [ op      |-> "capture_payment",
                      invoice |-> invoice,
                      result  |-> DummyCapturePayment(invoice, payment_id) ]
    /\ UNCHANGED <<settings, now, outbox, clock_ms, numbers, cancels>>
    /\ UNCHANGED billing_vars
    /\ UNCHANGED sub_vars

\* self.payments[payment_ref]['status'] when the reference is stored.
StoredStatus(payment_ref) ==
    IF payment_ref \in DOMAIN dummy_payments
    THEN dummy_payments[payment_ref].status
    ELSE None

\* (a status query that answers from random.choice even for a stored reference)
DummyInstanceStatus_Random(payment_ref, choice) == choice

\* get_payment_status on the instance.
DummyInstanceStatus(payment_ref, choice) ==
    IF payment_ref \in DOMAIN dummy_payments
    THEN dummy_payments[payment_ref].status
    ELSE choice

DummyStatus(payment_ref, choice) ==
    /\ last_call' = [ op     |-> "get_payment_status",
                      ref    |-> payment_ref,
                      stored |-> StoredStatus(payment_ref),
                      result |-> DummyInstanceStatus(payment_ref, choice) ]
    /\ UNCHANGED <<settings, now, outbox, clock_ms, numbers, cancels, dummy_payments>>
    /\ UNCHANGED billing_vars
    /\ UNCHANGED sub_vars

\* simulate_payment_failure: nothing happens for a reference that is not stored.
simulate_payment_failure(payment_ref) ==
    IF payment_ref \in DOMAIN dummy_payments
    THEN [dummy_payments EXCEPT ![payment_ref] =
            ("failure_reason" :> "Simulated failure for testing")
            @@ [k \in DOMAIN @ \ {"failure_reason"} |->
                  IF k = "status" THEN "failed" ELSE @[k]]]
    ELSE dummy_payments

SimulateFailure(payment_ref) ==
    /\ dummy_payments' = simulate_payment_failure(payment_ref)
    /\ last_call' = [op |-> "simulate_payment_failure", ref |-> payment_ref]
    /\ UNCHANGED <<settings, now, outbox, clock_ms, numbers, cancels>>
    /\ UNCHANGED billing_vars
    /\ UNCHANGED sub_vars

\* simulate_payment_delay: the stored status becomes pending.
simulate_payment_delay(payment_ref, delay_seconds) ==
    IF payment_ref \in DOMAIN dummy_payments
    THEN [dummy_payments EXCEPT ![payment_ref] =
            ("delay_until" :> now + delay_seconds)
            @@ [k \in DOMAIN @ \ {"delay_until"} |->
                  IF k = "status" THEN "pending" ELSE @[k]]]
    ELSE dummy_payments

SimulateDelay(payment_ref, delay_seconds) ==
    /\ dummy_payments' = simulate_payment_delay(payment_ref, delay_seconds)
    /\ last_call' = [op |-> "simulate_payment_delay", ref |-> payment_ref]
    /\ UNCHANGED <<settings, now, outbox, clock_ms, numbers, cancels>>
    /\ UNCHANGED billing_vars
    /\ UNCHANGED sub_vars

\* References a caller may ask about: the ones a capture can return and one
\* that no capture returns.
StatusRefs == DummyRefs \cup {"non_existent"}

DummyInit ==
    /\ settings \in {d \in Deployments : d.PAYMENTS_PROVIDER = "dummy"}
    /\ now = 0
    /\ SubIdle
    /\ BillingIdle
    /\ OtherIdle

DummyNext ==
    \/ \E invoice \in CaptureInvoices, payment_id \in DummyRefs :
          DummyCapture(invoice, payment_id)
    \/ \E payment_ref \in StatusRefs, choice \in RandomStatuses :
          DummyStatus(payment_ref, choice)
    \/ \E payment_ref \in StatusRefs : SimulateFailure(payment_ref)
    \/ \E payment_ref \in StatusRefs, delay_seconds \in {5} :
          SimulateDelay(payment_ref, delay_seconds)

DummySpec == DummyInit /\ [][DummyNext]_vars

(***************************************************************************)
(* core/permissions.py and the detail views of billing/views.py            *)
(***************************************************************************)
\* User.ROLE_CHOICES
Roles == {"OWNER", "ADMIN", "ACCOUNTANT", "USER"}

\* rest_framework.permissions.SAFE_METHODS
SAFE_METHODS == {"GET", "HEAD", "OPTIONS"}

Methods == SAFE_METHODS \cup {"POST", "PUT", "PATCH", "DELETE"}

\* Requests: an authenticated user with a role, and an HTTP method.
Requests ==
    { [user |-> [id |-> u, role |-> role], method |-> method] :
        u \in Users, role \in Roles, method \in Methods }

\* An invoice or a subscription of the customer of user u.
ObjectOf(u) == [customer |-> [user |-> [id |-> u]]]

\* User.is_admin
is_admin(user) == user.role \in {"OWNER", "ADMIN"}

\* CanManageInvoices.has_permission
CanManageInvoices_has_permission(request) ==
    request.user.role \in {"OWNER", "ADMIN", "ACCOUNTANT"}

\* CanManageInvoices.has_object_permission
CanManageInvoices_has_object_permission(request, obj) ==
    IF request.user.role \in {"OWNER", "ADMIN", "ACCOUNTANT"}
    THEN TRUE
    ELSE IF request.method \in SAFE_METHODS
            /\ hasattr(obj, "customer") /\ hasattr(obj.customer, "user")
    THEN obj.customer.user.id = request.user.id
    ELSE FALSE

\* CanManageSubscriptions.has_permission
CanManageSubscriptions_has_permission(request) ==
    request.user.role \in {"OWNER", "ADMIN"}

\* CanManageSubscriptions.has_object_permission
CanManageSubscriptions_has_object_permission(request, obj) ==
    IF request.user.role \in {"OWNER", "ADMIN"}
    THEN TRUE
    ELSE IF request.method \in SAFE_METHODS
            /\ hasattr(obj, "customer") /\ hasattr(obj.customer, "user")
    THEN obj.customer.user.id = request.user.id
    ELSE FALSE

\* get_queryset of both detail views: every row for an admin, otherwise the rows
\* of the requesting user's customer.
InQueryset(request, obj) ==
    is_admin(request.user) \/ obj.customer.user.id = request.user.id

DetailViews == {"InvoiceDetailView", "SubscriptionDetailView"}

\* A request to a detail view: the view's permission class is asked
\* has_permission before the handler runs; get_object() then looks the row up in
\* get_queryset() and asks has_object_permission.
Authorize(view, request, obj) ==
    LET has_permission ==
            IF view = "InvoiceDetailView"
            THEN CanManageInvoices_has_permission(request)
            ELSE CanManageSubscriptions_has_permission(request)
        has_object_permission ==
            IF view = "InvoiceDetailView"
            THEN CanManageInvoices_has_object_permission(request, obj)
            ELSE CanManageSubscriptions_has_object_permission(request, obj)
    IN  IF ~has_permission THEN "403 permission denied"
        ELSE IF ~InQueryset(request, obj) THEN "404 not found"
        ELSE IF ~has_object_permission THEN "403 permission denied"
        ELSE "permitted"

Request(view, request, owner) ==
    /\ last_call' = [ op      |-> "authorize",
                      view    |-> view,
                      request |-> request,
                      owner   |-> owner,
                      result  |-> Authorize(view, request, ObjectOf(owner)) ]
    /\ UNCHANGED <<settings, now, outbox, clock_ms, numbers, cancels, dummy_payments>>
    /\ UNCHANGED billing_vars
    /\ UNCHANGED sub_vars

PermissionInit ==
    /\ settings \in {d \in Deployments : d.PAYMENTS_PROVIDER = "dummy"}
    /\ now = 0
    /\ SubIdle
    /\ BillingIdle
    /\ OtherIdle

PermissionNext ==
    \E view \in DetailViews, request \in Requests, owner \in Users :
        Request(view, request, owner)

PermissionSpec == PermissionInit /\ [][PermissionNext]_vars

(***************************************************************************)
(* Properties                                                              *)
(***************************************************************************)
SucceededPayments(i) ==
    { k \in 1..Len(payments) : payments[k].invoice = i /\ payments[k].status = "succeeded" }


\* C1: at most one Payment of an invoice has status succeeded, under every
\* interleaving of the pay requests (and webhooks) for that invoice.
C1_AtMostOneSucceeded ==
    \A i \in InvoiceIds : Cardinality(SucceededPayments(i)) <= 1

CreatedWith(code) ==
    { k \in 1..Len(subscriptions) : subscriptions[k].coupon = code }

RequestsWith(code) ==
    { c \in CreateIds : creates[c].pc # "idle" /\ creates[c].code = code }

Delivered(r) == reqs[r].op = "webhook" /\ reqs[r].pc = "done"

\* A delivery the configured provider has to accept as far as its signature goes.
ProperlySigned(signature) ==
    \/ get_provider_name = "dummy"
    \/ /\ settings.STRIPE_WEBHOOK_SECRET # ""
       /\ signature = settings.STRIPE_WEBHOOK_SECRET

\* C4: after two deliveries of the same payment_intent.succeeded event, the
\* invoice of the payment the event names is paid, it became paid exactly once,
\* and the second delivery was answered with success.
C4_DuplicateDeliveryPaysOnce ==
    \A r1, r2 \in ReqIds :
        ( /\ r1 < r2
          /\ Delivered(r1) /\ Delivered(r2)
          /\ reqs[r1].payload = reqs[r2].payload
          /\ reqs[r1].payload.wellformed
          /\ reqs[r1].payload.type = "payment_intent.succeeded"
          /\ ProperlySigned(reqs[r1].signature) /\ ProperlySigned(reqs[r2].signature) )
        => /\ reqs[r2].response = "200 success"
           /\ \A k \in PaymentsWithRef(reqs[r1].payload.ref) :
                 /\ invoices[payments[k].invoice].status = "paid"
                 /\ paid_count[payments[k].invoice] = 1

\* The step in which slot r handles a webhook delivery.
WebhookStep(r) == reqs[r].pc = "idle" /\ reqs'[r].op = "webhook"

\* In such a step: the delivery is properly signed and its payload is an event
\* of type `type` about the provider reference of Payment row k.
DeliversEvent(r, type, k) ==
    /\ WebhookStep(r)
    /\ ProperlySigned(reqs'[r].signature)
    /\ reqs'[r].payload.wellformed
    /\ reqs'[r].payload.type = type
    /\ reqs'[r].payload.ref = payments[k].provider_ref

\* C5: handling a payment_intent.succeeded event about a stored Payment that is
\* not yet succeeded sets the Payment to succeeded, its processed_at to the event
\* time, and its invoice to paid.
C5_SucceededEventApplied ==
    [][ \A r \in ReqIds : \A k \in 1..Len(payments) :
          ( /\ DeliversEvent(r, "payment_intent.succeeded", k)
            /\ payments[k].status # "succeeded" )
          => /\ payments'[k].status = "succeeded"
             /\ payments'[k].processed_at = reqs'[r].payload.created
             /\ invoices'[payments[k].invoice].status = "paid" ]_vars

\* C6: a succeeded Payment keeps that status in every step, and a
\* payment_intent.payment_failed event about a succeeded Payment leaves the
\* Payment succeeded and a paid invoice paid.
C6_SucceededIsTerminal ==
    [][ /\ \A k \in 1..Len(payments) :
              payments[k].status = "succeeded"
              => k <= Len(payments') /\ payments'[k].status = "succeeded"
        /\ \A r \in ReqIds : \A k \in 1..Len(payments) :
              ( /\ DeliversEvent(r, "payment_intent.payment_failed", k)
                /\ payments[k].status = "succeeded"
                /\ invoices[payments[k].invoice].status = "paid" )
              => /\ reqs'[r].response = "200 success"
                 /\ payments'[k].status = "succeeded"
                 /\ invoices'[payments[k].invoice].status = "paid" ]_vars

\* A failure event was accepted after a success event for the reference of a
\* succeeded Payment whose invoice is paid.
C6_Witness ==
    \E r1, r2 \in ReqIds : \E k \in 1..Len(payments) :
        /\ r1 < r2 /\ Delivered(r1) /\ Delivered(r2)
        /\ get_provider_name = "stripe"
        /\ reqs[r1].response = "200 success" /\ reqs[r2].response = "200 success"
        /\ reqs[r1].payload.type = "payment_intent.succeeded"
        /\ reqs[r2].payload.type = "payment_intent.payment_failed"
        /\ reqs[r1].payload.ref = payments[k].provider_ref
        /\ reqs[r2].payload.ref = payments[k].provider_ref
        /\ payments[k].status = "succeeded"
        /\ invoices[payments[k].invoice].status = "paid"

\* C7: handling a payment_intent.payment_failed event about a stored Payment
\* that is not succeeded sets the Payment to failed and records a failure reason.
C7_FailedEventApplied ==
    [][ \A r \in ReqIds : \A k \in 1..Len(payments) :
          ( /\ DeliversEvent(r, "payment_intent.payment_failed", k)
            /\ payments[k].status # "succeeded" )
          => /\ payments'[k].status = "failed"
             /\ payments'[k].failure_reason # "" ]_vars

\* C8: with Stripe configured, a delivery whose signature is not the one the
\* webhook secret produces is answered with an error and changes no Payment and
\* no Invoice; so no delivery is applied without a validated signature.
C8_BadSignatureRejected ==
    [][ \A r \in ReqIds :
          ( /\ WebhookStep(r)
            /\ get_provider_name = "stripe"
            /\ reqs'[r].signature # settings.STRIPE_WEBHOOK_SECRET )
          => /\ reqs'[r].response # "200 success"
             /\ payments' = payments
             /\ invoices' = invoices ]_vars

\* A forged delivery of a well-formed event about a stored Payment was rejected.
C8_Witness ==
    \E r \in ReqIds :
        /\ Delivered(r)
        /\ get_provider_name = "stripe"
        /\ settings.STRIPE_WEBHOOK_SECRET = "whsec"
        /\ reqs[r].signature = "forged"
        /\ reqs[r].payload.wellformed
        /\ PaymentsWithRef(reqs[r].payload.ref) # {}
        /\ reqs[r].response = "400 Invalid signature"

\* The sum over the stored line items of quantity x unit amount.
RECURSIVE LineSum(_, _)
LineSum(its, n) ==
    IF n = 0 THEN 0
    ELSE its[n].quantity * its[n].unit_amount_cents + LineSum(its, n - 1)

\* C9: finalizing a draft invoice whose discount exceeds its subtotal plus tax
\* stores total 0 on the finalized invoice.
C9_FinalizeClampsTotal ==
    [][ \A r \in ReqIds :
          LET i   == reqs[r].inv
              sub == LineSum(items[i], Len(items[i]))
              tax == (sub * TAX_RATE_TENTHS) \div 1000
          IN  ( /\ reqs[r].pc = "fin_loaded" /\ reqs'[r].pc = "done"
                /\ invoices[i].status = "draft"
                /\ invoices[i].discount_cents > sub + tax )
              => /\ invoices'[i].status = "open"
                 /\ invoices'[i].total_cents = 0 ]_vars

\* C10: every invoice that is not a draft has the subtotal of its line items.
C10_SubtotalIsItemSum ==
    \A i \in InvoiceIds :
        invoices[i].status # "draft"
        => invoices[i].subtotal_cents = LineSum(items[i], Len(items[i]))

\* A finalize request turned the draft created before its two items into an
\* open invoice.
C10_Witness ==
    \E r \in ReqIds :
        /\ reqs[r].op = "finalize"
        /\ reqs[r].response = "200 Invoice finalized successfully"
        /\ items[reqs[r].inv] = TwoItems
        /\ invoices[reqs[r].inv].discount_cents = 0
        /\ invoices[reqs[r].inv].status # "draft"

\* C11: finalizing a draft invoice stores subtotal = sum of its item totals, tax
\* = floor(subtotal x 8.5 / 100), total = max(0, subtotal + tax - discount) with
\* the discount stored on the invoice, and status open.
C11_FinalizeComputesTotals ==
    [][ \A r \in ReqIds :
          LET i   == reqs[r].inv
              sub == LineSum(items[i], Len(items[i]))
              tax == (sub * TAX_RATE_TENTHS) \div 1000
              due == sub + tax - invoices[i].discount_cents
          IN  ( /\ reqs[r].pc = "fin_loaded" /\ reqs'[r].pc = "done"
                /\ invoices[i].status = "draft" )
              => /\ invoices'[i].subtotal_cents = sub
                 /\ invoices'[i].tax_cents = tax
                 /\ invoices'[i].total_cents = (IF due < 0 THEN 0 ELSE due)
                 /\ invoices'[i].discount_cents = invoices[i].discount_cents
                 /\ invoices'[i].status = "open" ]_vars

\* The step in which slot r receives a request `op` for invoice i.
Receives(r, op, i) ==
    reqs[r].pc = "idle" /\ reqs'[r].op = op /\ reqs'[r].inv = i

\* C12: a finalize request for an invoice that is not a draft is answered with
\* the invalid-state error and goes no further; the Invoice table is unchanged.
C12_NonDraftFinalizeRejected ==
    [][ \A r \in ReqIds, i \in InvoiceIds :
          (Receives(r, "finalize", i) /\ invoices[i].status # "draft")
          => /\ reqs'[r].pc = "done"
             /\ reqs'[r].response = "400 Invoice is not in draft status"
             /\ invoices' = invoices ]_vars

\* A second finalize of an invoice was rejected after the first had opened it.
C12_Witness ==
    \E r1, r2 \in ReqIds :
        /\ r1 < r2
        /\ reqs[r1].op = "finalize" /\ reqs[r2].op = "finalize"
        /\ reqs[r1].inv = reqs[r2].inv
        /\ reqs[r1].response = "200 Invoice finalized successfully"
        /\ reqs[r2].response = "400 Invoice is not in draft status"
        /\ invoices[reqs[r1].inv].status = "open"

\* C13: an issued invoice for the 2900-cent plan carrying the discount of the
\* valid 20%-off coupon has subtotal 2900, discount 580, tax 246 and total 2566.
C13_PlanInvoiceAmounts ==
    \A i \in InvoiceIds :
        ( /\ invoices[i].status = "open"
          /\ items[i] = PlanItem
          /\ invoices[i].discount_cents = calculate_discount(WelcomeCoupon, 2900) )
        => /\ invoices[i].subtotal_cents = 2900
           /\ invoices[i].discount_cents = 580
           /\ invoices[i].tax_cents = 246
           /\ invoices[i].total_cents = 2566

\* C14: mark_as_paid on an invoice that is already paid changes nothing: the
\* status stays paid and paid_at keeps the time of the first call.
C14_MarkAsPaidIdempotent ==
    [][ \A r \in ReqIds :
          ( /\ reqs[r].pc = "pay_created" /\ reqs'[r].pc = "done"
            /\ invoices[reqs[r].inv].status = "paid" )
          => /\ invoices'[reqs[r].inv].status = "paid"
             /\ invoices'[reqs[r].inv].paid_at = invoices[reqs[r].inv].paid_at ]_vars

Confirmations(i) == { k \in 1..Len(outbox) : outbox[k] = i }

\* C15: once no request is in progress, a paid invoice has had exactly one
\* payment-confirmation notification sent for it.
C15_OneConfirmationPerPaidInvoice ==
    (\A r \in ReqIds : reqs[r].pc \in {"idle", "done"})
    => \A i \in InvoiceIds :
          invoices[i].status = "paid" => Cardinality(Confirmations(i)) = 1

\* C16: a paid invoice never becomes void.
C16_PaidNeverVoided ==
    [][ \A i \in InvoiceIds :
          invoices[i].status = "paid" => invoices'[i].status # "void" ]_vars

StatusEdges ==
    { <<"draft", "open">>, <<"open", "paid">>, <<"open", "void">>,
      <<"open", "uncollectible">> }

\* C17: the stored status of an invoice changes only along draft -> open,
\* open -> paid, open -> void and open -> uncollectible.
C17_StatusEdges ==
    [][ \A i \in InvoiceIds :
          \/ invoices'[i].status = invoices[i].status
          \/ <<invoices[i].status, invoices'[i].status>> \in StatusEdges ]_vars

\* C18: a pay request for an invoice that is not open is answered with an error
\* and goes no further: the provider issues no payment reference, no Payment row
\* is created and the Invoice table is unchanged.
C18_NonOpenPayRejected ==
    [][ \A r \in ReqIds, i \in InvoiceIds :
          (Receives(r, "pay", i) /\ invoices[i].status # "open")
          => /\ reqs'[r].pc = "done"
             /\ reqs'[r].response = "400 Invoice is not open for payment"
             /\ intents' = intents
             /\ payments' = payments
             /\ invoices' = invoices ]_vars

\* A pay request was rejected for the invoice an earlier pay request had paid.
C18_Witness ==
    \E r1, r2 \in ReqIds :
        /\ r1 < r2
        /\ reqs[r1].op = "pay" /\ reqs[r2].op = "pay"
        /\ reqs[r1].inv = reqs[r2].inv
        /\ reqs[r1].response = "200 Payment processed successfully"
        /\ reqs[r2].response = "400 Invoice is not open for payment"
        /\ invoices[reqs[r1].inv].status = "paid"
        /\ Len(payments) = 1

\* C19: any two invoice-number allocations return different numbers.
C19_NumbersUnique ==
    \A j, k \in 1..Len(numbers) : j # k => numbers[j] # numbers[k]

\* C20: is_valid() holds exactly when the coupon is active, has no expiry or
\* now < expiry, and has no max_redemptions or times_redeemed < max_redemptions.
C20_IsValidIff ==
    \A code \in CouponCodes :
        is_valid(coupons[code])
        <=> /\ coupons[code].active
            /\ (coupons[code].expires_at = Null \/ now < coupons[code].expires_at)
            /\ \/ coupons[code].max_redemptions = Null
               \/ coupons[code].times_redeemed < coupons[code].max_redemptions

\* The validity the coupon invariant states, at time t.
ValidAt(coupon, t) ==
    /\ coupon.active
    /\ (coupon.expires_at = Null \/ t < coupon.expires_at)
    /\ (coupon.max_redemptions = Null \/ coupon.times_redeemed < coupon.max_redemptions)

\* C21: calculate_discount returns 0 for a coupon that is inactive, expired or
\* fully redeemed; floor(amount x percent_off / 100) for a valid percent coupon;
\* min(amount_off_cents, amount) for a valid fixed coupon.
C21_DiscountByKind ==
    last_call.op = "calculate_discount"
    => LET c == last_call.coupon
           a == last_call.amount
       IN  /\ ~ValidAt(c, last_call.at) => last_call.result = 0
           /\ ( /\ ValidAt(c, last_call.at)
                /\ c.discount_type = "percent" /\ c.percent_off # Null )
              => last_call.result = (a * c.percent_off) \div 100
           /\ ( /\ ValidAt(c, last_call.at)
                /\ c.discount_type = "amount" /\ c.amount_off_cents # Null )
              => last_call.result = (IF c.amount_off_cents < a THEN c.amount_off_cents ELSE a)

\* C22: for every stored coupon and every amount >= 0, the discount is at least
\* 0 and at most the amount.
C22_DiscountWithinAmount ==
    last_call.op = "calculate_discount"
    => /\ 0 <= last_call.result
       /\ last_call.result <= last_call.amount

\* A valid fixed coupon worth more than the amount gave exactly the amount.
C22_Witness ==
    /\ last_call.op = "calculate_discount"
    /\ last_call.coupon.discount_type = "amount"
    /\ last_call.coupon.amount_off_cents = 5000
    /\ last_call.amount = 2900
    /\ last_call.result = 2900

\* C23: a creation request whose coupon_code matches no coupon, or a coupon for
\* which is_valid() is false, fails with a ValidationError and stores nothing:
\* no subscription, no customer, no change of a coupon.
C23_BadCouponIsValidationError ==
    [][ \A c \in CreateIds :
          ( /\ creates[c].pc = "idle" /\ creates'[c].pc # "idle"
            /\ creates'[c].code # None
            /\ \/ creates'[c].code \notin DOMAIN coupons
               \/ ~is_valid(coupons[creates'[c].code]) )
          => /\ creates'[c].pc = "done"
             /\ creates'[c].response = "400 ValidationError"
             /\ subscriptions' = subscriptions
             /\ customers' = customers
             /\ coupons' = coupons ]_vars

\* C24: the subscription a creation request stores is trialing exactly when its
\* plan has trial_days > 0 and active otherwise; its plan is the requested plan
\* and its customer is the customer of the requesting user.
C24_NewSubscriptionStatus ==
    [][ \A c \in CreateIds :
          (creates[c].pc = "validated" /\ creates'[c].pc = "done")
          => /\ Len(subscriptions') = Len(subscriptions) + 1
             /\ LET new == subscriptions'[Len(subscriptions')]
                IN  /\ new.status = "trialing" <=> Plans[creates[c].plan].trial_days > 0
                    /\ new.status \in {"trialing", "active"}
                    /\ new.plan = creates[c].plan
                    /\ new.customer = creates[c].user
                    /\ new.customer \in customers' ]_vars

\* A plan with a trial gave a trialing subscription, a plan without one an
\* active subscription.
C24_Witness ==
    \E j, k \in 1..Len(subscriptions) :
        /\ Plans[subscriptions[j].plan].trial_days > 0
        /\ subscriptions[j].status = "trialing"
        /\ Plans[subscriptions[k].plan].trial_days = 0
        /\ subscriptions[k].status = "active"

\* The step in which cancel handler c calls subscription.cancel(...).
CancelStep(c) == cancels[c].pc = "loaded" /\ cancels'[c].pc = "done"

C26_CancelIdempotent ==
    [][ \A c \in CancelIds :
          ( /\ CancelStep(c)
            /\ cancels[c].local.status = "canceled"
            /\ subscriptions[cancels[c].sub].status = "canceled" )
          => LET old == subscriptions[cancels[c].sub]
                 new == subscriptions'[cancels[c].sub]
             IN  /\ new.status = old.status
                 /\ new.ended_at = old.ended_at
                 /\ new.cancel_at_period_end = old.cancel_at_period_end ]_vars

\* C27: a subscription whose status is canceled stays canceled.
C27_CanceledStaysCanceled ==
    [][ \A k \in 1..Len(subscriptions) :
          subscriptions[k].status = "canceled"
          => subscriptions'[k].status = "canceled" ]_vars

\* C28: a refund of more than the payment's amount is rejected with a
\* ValidationError and yields no refund, under either provider; a refund with the
\* amount omitted refunds exactly the payment's amount.
C28_RefundAmountChecked ==
    last_call.op = "refund"
    => /\ ( last_call.amount # Null
            /\ last_call.amount > last_call.payment.amount_cents )
          => /\ last_call.result.raised = "ValidationError"
             /\ last_call.result.status = None
       /\ ( last_call.amount = Null /\ last_call.result.raised = None )
          => last_call.result.amount_cents = last_call.payment.amount_cents

\* C29: get_payment_status answers unknown for every reference the provider
\* cannot resolve, under either provider.
C29_UnresolvedIsUnknown ==
    (last_call.op = "get_payment_status" /\ ~last_call.resolved)
    => last_call.result = "unknown"

\* C30: the session create_checkout returns carries the invoice's total and
\* currency for an invoice, and the plan's price and the plan's currency for a
\* subscription (currency codes compared without regard to case).
C30_CheckoutAmountAndCurrency ==
    (last_call.op = "create_checkout" /\ last_call.result.raised = None)
    => LET payable == last_call.payable
           result  == last_call.result
       IN  /\ hasattr(payable, "total_cents")
              => /\ result.amount_cents = payable.total_cents
                 /\ Lower(result.currency) = Lower(payable.currency)
           /\ (~hasattr(payable, "total_cents") /\ hasattr(payable, "plan"))
              => /\ result.amount_cents = payable.plan.price_cents
                 /\ Lower(result.currency) = Lower(payable.plan.currency)

\* C31: DummyProvider.capture_payment returns a result with status succeeded,
\* the invoice's total_cents and currency, and provider_ref equal to the result
\* id, and stores that result in the provider's payments under that reference.
C31_DummyCapture ==
    [][ (last_call'.op = "capture_payment" /\ last_call' # last_call)
        => LET result == last_call'.result
           IN  /\ result.status = "succeeded"
               /\ result.amount_cents = last_call'.invoice.total_cents
               /\ result.currency = last_call'.invoice.currency
               /\ result.provider_ref = result.id
               /\ result.provider_ref \in DOMAIN dummy_payments'
               /\ dummy_payments'[result.provider_ref] = result
               /\ \A r \in DOMAIN dummy_payments \ {result.provider_ref} :
                     /\ r \in DOMAIN dummy_payments'
                     /\ dummy_payments'[r] = dummy_payments[r] ]_vars

\* Two invoices have been captured on the instance and both results are stored.
C31_Witness ==
    /\ last_call.op = "capture_payment"
    /\ last_call.invoice.total_cents = 2567
    /\ last_call.invoice.currency = "EUR"
    /\ DOMAIN dummy_payments = DummyRefs
    /\ \E r \in DummyRefs : dummy_payments[r].amount_cents = 1000

\* C32: DummyProvider.get_payment_status answers the status stored for a
\* reference in the provider's payments (succeeded once capture_payment has
\* returned it, failed once simulate_payment_failure has been called for it), and
\* one of succeeded, failed, pending for a reference that is not stored.
C32_DummyStatus ==
    [][ /\ (last_call'.op = "get_payment_status" /\ last_call' # last_call)
           => /\ dummy_payments' = dummy_payments
              /\ IF last_call'.ref \in DOMAIN dummy_payments
                 THEN last_call'.result = dummy_payments[last_call'.ref].status
                 ELSE last_call'.result \in {"succeeded", "failed", "pending"}
        /\ (last_call'.op = "capture_payment" /\ last_call' # last_call)
           => dummy_payments'[last_call'.result.provider_ref].status = "succeeded"
        /\ ( /\ last_call'.op = "simulate_payment_failure"
             /\ last_call'.ref \in DOMAIN dummy_payments )
           => dummy_payments'[last_call'.ref].status = "failed" ]_vars

\* A status query answered failed for a reference whose payment was captured and
\* then made to fail, although the other stored payment succeeded.
C32_Witness ==
    /\ last_call.op = "get_payment_status"
    /\ last_call.stored = "failed"
    /\ last_call.result = "failed"
    /\ \E r \in DOMAIN dummy_payments : dummy_payments[r].status = "succeeded"

CaptureRaises(r) == reqs[r].pc = "pay_loaded" /\ reqs'[r].pc = "done"

\* C34: when the provider's capture call raises or times out, pay stores no
\* Payment, leaves the invoice as it is, and reports the payment neither as
\* failed nor as succeeded.
C34_CaptureErrorIsUnknown ==
    [][ \A r \in ReqIds :
          CaptureRaises(r)
          => /\ payments' = payments
             /\ invoices' = invoices
             /\ reqs'[r].response \notin {"400 Payment failed",
                                          "200 Payment processed successfully"} ]_vars

\* Payment.STATUS_CHOICES
PAYMENT_STATUS_CHOICES == {"requires_action", "succeeded", "failed", "canceled"}

\* C35: every stored Payment has a status among requires_action, succeeded,
\* failed and canceled, whichever provider produced the capture result.
C35_PaymentStatusInChoices ==
    \A k \in 1..Len(payments) : payments[k].status \in PAYMENT_STATUS_CHOICES

\* Payment.PROVIDER_CHOICES
PROVIDER_CHOICES == {"dummy", "stripe"}

\* C36: every Payment that pay stored names the configured provider (dummy or
\* stripe) in its provider field, and carries the reference the provider's
\* capture returned: references are issued in order, so the references of the
\* stored Payments are distinct and among those issued so far.
C36_PaymentNamesProvider ==
    /\ \A k \in 1..Len(payments) :
          /\ payments[k].provider = get_provider_name
          /\ payments[k].provider \in PROVIDER_CHOICES
          /\ payments[k].provider_ref \in 1..intents
    /\ \A j, k \in 1..Len(payments) :
          j # k => payments[j].provider_ref # payments[k].provider_ref

\* No pay request and no webhook is in progress.
PaymentsQuiet ==
    \A r \in ReqIds : reqs[r].op \in {"pay", "webhook"} => reqs[r].pc = "done"

\* C37: whenever no pay request and no webhook is in progress, an invoice is
\* paid exactly when it has a succeeded Payment.
C37_PaidIffSucceededPayment ==
    PaymentsQuiet
    => \A i \in InvoiceIds :
          invoices[i].status = "paid" <=> SucceededPayments(i) # {}

\* C38: a USER is permitted a safe-method request on an invoice or subscription
\* of their own customer and denied one on another customer's; a USER is denied
\* every other method; an ACCOUNTANT is permitted every request on every invoice
\* and none on a subscription; an OWNER or ADMIN is permitted every request on
\* both.
C38_RolePermissions ==
    last_call.op = "authorize"
    => LET request   == last_call.request
           role      == request.user.role
           own       == last_call.owner = request.user.id
           safe      == request.method \in SAFE_METHODS
           permitted == last_call.result = "permitted"
       IN  /\ role = "USER" => (permitted <=> (safe /\ own))
           /\ role = "ACCOUNTANT"
              => (permitted <=> last_call.view = "InvoiceDetailView")
           /\ role \in {"OWNER", "ADMIN"} => permitted

====
